---------------------------- MODULE Spec2Model ----------------------------
(***************************************************************************)
(* Model of stellar/perception/sensors.py: reassembly of UART frames       *)
(* (combine_messages), binary decoding of the reassembled payload          *)
(* (decode_blob) and the poller object (Sensors) that reads a device and   *)
(* puts decoded readings on an outbound queue.                             *)
(*                                                                         *)
(* Bytes are naturals in 0..255, a bytes object is a sequence of bytes     *)
(* (Python index k is TLA+ index k+1).  A struct format string "=xffffii"  *)
(* is the sequence of its type codes after the "=" prefix.  A decoded      *)
(* int32 is the integer its four bytes stand for (native byte order, taken *)
(* little-endian); a decoded float32 is kept as the four bytes of the      *)
(* value, which differ from the bytes read for a signalling NaN only.      *)
(***************************************************************************)
EXTENDS Integers, Sequences, FiniteSets, TLC

\* ------------------------------------------------------------------ bounds
MaxFrames == 3
MaxSeed == 1
MaxBlobLen == 27
MaxBursts == 3
MaxPolls == 4

\* ------------------------------------------------------- program constants
\* if stop_bit == 0x01
STOP_BIT == 1
\* blob[1:9]
PAYLOAD_LO == 1
PAYLOAD_HI == 9

Min(a, b) == IF a < b THEN a ELSE b

\* Python's seq[lo:hi] for 0 <= lo, 0 <= hi: elements lo .. hi-1, clipped to
\* the sequence.
Slice(s, lo, hi) == SubSeq(s, lo + 1, Min(hi, Len(s)))

\* What a call gives back: a returned value, or a raised exception with its
\* message.
Returned(v) == [exc |-> "none", val |-> v, msg |-> <<>>]
Raised(e, m) == [exc |-> e, val |-> <<>>, msg |-> m]

\* ------------------------------------------------------- combine_messages
\* b''.join(buf)
RECURSIVE join(_)
join(buf) == IF buf = <<>> THEN <<>> ELSE Head(buf) \o join(Tail(buf))

\* A frame slice that also takes the trailer byte: blob[1:].
payload_with_trailer(blob) == Slice(blob, PAYLOAD_LO, Len(blob))
\* A frame slice that starts at the marker: blob[0:8].
payload_from_marker(blob) == Slice(blob, 0, 8)
\* blob[1:9]
payload_of(blob) == Slice(blob, PAYLOAD_LO, PAYLOAD_HI)

\* A stop test that never stops the loop.
never_stop(blob) == FALSE
\* A stop test on the marker byte: blob[0] == 0x01.
stop_on_marker(blob) == blob[1] = STOP_BIT
\* stop_bit = blob[-1]; stop_bit == 0x01     (blob is not empty)
is_stop(blob) == blob[Len(blob)] = STOP_BIT

\* The for loop of combine_messages from frame i on, buf being the list built
\* so far.  blob[-1] of an empty frame raises IndexError.
RECURSIVE combine_loop(_, _, _)
combine_loop(blobs, i, buf) ==
    IF i > Len(blobs) THEN Returned(join(buf))
    ELSE LET blob == blobs[i] IN
         IF Len(blob) = 0 THEN Raised("IndexError", <<>>)
         ELSE LET buf2 == Append(buf, payload_of(blob)) IN
              IF is_stop(blob) THEN Returned(join(buf2))
              ELSE combine_loop(blobs, i + 1, buf2)

combine_messages(blobs) == combine_loop(blobs, 1, <<>>)

\* ------------------------------------------------------------ decode_blob
\* struct's standard sizes ("=" prefix: no alignment): x pad byte, f float32,
\* i int32.
size_of(code) == IF code = "x" THEN 1 ELSE 4

\* struct.calcsize(fmt)
RECURSIVE calcsize(_)
calcsize(fmt) == IF fmt = <<>> THEN 0 ELSE size_of(Head(fmt)) + calcsize(Tail(fmt))

\* A length test that accepts any buffer at least as long as the layout.
length_at_least(fmt, blob) == Len(blob) >= calcsize(fmt)
\* struct.unpack requires a buffer of exactly calcsize(fmt) bytes.
length_matches(fmt, blob) == Len(blob) = calcsize(fmt)

\* struct's "i": four bytes, two's complement, least significant first.
int32_from(bs) ==
    bs[1] + 256 * bs[2] + 65536 * bs[3]
    + 16777216 * (IF bs[4] >= 128 THEN bs[4] - 256 ELSE bs[4])
\* struct's "f": the float32 is widened to a Python float, which keeps every
\* value but a signalling NaN (exponent all ones, quiet bit clear, mantissa
\* not zero): that one comes out quiet, its other bits kept.  The float is
\* written here as the float32 bytes of the value.
float32_from(bs) ==
    IF /\ bs[4] % 128 = 127 /\ bs[3] >= 128
       /\ bs[3] % 128 < 64
       /\ (bs[3] % 128) * 65536 + bs[2] * 256 + bs[1] /= 0
    THEN <<bs[1], bs[2], bs[3] + 64, bs[4]>>
    ELSE bs
\* One unpacked scalar: the float of an "f" field, the integer of an "i" one.
scalar_of(code, bs) ==
    IF code = "i" THEN [t |-> "i", v |-> int32_from(bs)]
    ELSE [t |-> code, b |-> float32_from(bs)]

\* The values struct.unpack extracts from offset off on: one scalar per code
\* other than the pad code, in declared order.
RECURSIVE unpack_from(_, _, _)
unpack_from(fmt, blob, off) ==
    IF fmt = <<>> THEN <<>>
    ELSE LET code == Head(fmt)
             rest == unpack_from(Tail(fmt), blob, off + size_of(code))
         IN IF code = "x" THEN rest
            ELSE <<scalar_of(code, Slice(blob, off, off + 4))>> \o rest

\* binascii.hexlify: two lowercase hex digits per byte.
HexDigits == <<"0", "1", "2", "3", "4", "5", "6", "7",
               "8", "9", "a", "b", "c", "d", "e", "f">>
RECURSIVE hexlify(_)
hexlify(blob) ==
    IF blob = <<>> THEN <<>>
    ELSE <<HexDigits[(Head(blob) \div 16) + 1], HexDigits[(Head(blob) % 16) + 1]>>
         \o hexlify(Tail(blob))

\* A decoder that swallows struct.error and gives back an empty tuple.
decode_blob_swallow(blob, fmt) ==
    IF length_matches(fmt, blob) THEN Returned(unpack_from(fmt, blob, 0))
    ELSE Returned(<<>>)
\* try: return struct.unpack(fmt, blob)
\* except struct.error: raise ValueError("Unable to decode data, got: <hex>")
decode_blob(blob, fmt) ==
    IF length_matches(fmt, blob) THEN Returned(unpack_from(fmt, blob, 0))
    ELSE Raised("ValueError", hexlify(blob))


\* ------------------------------------------------------------------ state
VARIABLES
    todo,       \* calls still to be made by the caller of the two functions
    reading,    \* the reading the transmitter serialises (round trip)
    layout,     \* fmt argument of decode_blob
    blobs,      \* blobs argument of combine_messages
    buf,        \* what combine_messages gave back
    blob,       \* blob argument of decode_blob
    values,     \* what decode_blob gave back
    device,     \* Sensors.device: the bytes written to it and not yet read
    out_queue,  \* Sensors.out_queue: the values put and not yet taken
    maxsize,    \* Sensors.out_queue.maxsize: the caller's queue holds at most
                \* that many values, any number when it is 0
    fmt,        \* Sensors.fmt
    pc,         \* where the call of Sensors.read is: "idle" when there is none
    rblob,      \* Sensors.read's local blob
    rvalues,    \* Sensors.read's local values
    result,     \* what the latest finished call of Sensors.read gave back
    cycle,      \* the latest call of Sensors.read: the blob read, the buffer decoded
    polls,      \* calls of Sensors.read
    reads,      \* calls of device.read
    decodes,    \* calls of decode_blob made by Sensors.read
    sent,       \* bursts written to the device
    produced,   \* the values put on out_queue, in order, each with the blob it came from
    taken       \* the values the consumer got from out_queue, in order

pureVars == <<todo, reading, layout, blobs, buf, blob, values>>
pollVars == <<device, out_queue, maxsize, fmt, pc, rblob, rvalues, result, cycle, polls,
              reads, decodes, sent, produced, taken>>
vars == <<todo, reading, layout, blobs, buf, blob, values, device, out_queue,
          maxsize, fmt, pc, rblob, rvalues, result, cycle, polls, reads, decodes, sent,
          produced, taken>>

\* No call made yet.
Pending == [exc |-> "pending", val |-> <<>>, msg |-> <<>>]
NoCycle == [blob |-> <<>>, decoded |-> FALSE, input |-> <<>>]

\* ----------------------------------------------------------------- inputs
\* n bytes that differ from one seed to the next; seed 0 starts with the byte
\* 0x01, the value of the stop sentinel.
Pattern(seed, n) == [i \in 1..n |-> (seed * 16 + 1 + (i - 1) * 37) % 256]

\* A 10-byte frame: marker, 8 payload bytes, trailer.
FrameOf(marker, seed, trailer) == <<marker>> \o Pattern(seed, 8) \o <<trailer>>
Markers == {1, 2}
Trailers == {0, 1, 255}
GoodFrames == {FrameOf(m, s, t) : m \in Markers, s \in 0..MaxSeed, t \in Trailers}
\* Frames that break the 10-byte precondition: an empty one, short ones with
\* and without the sentinel as last byte.
BadFrames == {<<>>, <<2, 7, 1>>, <<2, 7, 9, 0>>}
Frames == GoodFrames \cup BadFrames
FrameSeqs == UNION {[1..n -> Frames] : n \in 0..MaxFrames}

\* The layouts: Sensors' default "=xffffiix", decode_blob's default "=ffffii",
\* smaller ones, and the empty "=".
DefaultSensorsFmt == <<"x", "f", "f", "f", "f", "i", "i", "x">>
DefaultDecodeFmt == <<"f", "f", "f", "f", "i", "i">>
Layouts == {DefaultSensorsFmt, DefaultDecodeFmt, <<"f", "i">>, <<"x", "i", "x">>,
            <<"x", "x", "i", "x", "x">>, <<"x">>, <<>>}

PollerIdle ==
    /\ device = <<>> /\ out_queue = <<>> /\ maxsize = 0
    /\ fmt = DefaultSensorsFmt
    /\ pc = "idle" /\ rblob = <<>> /\ rvalues = <<>>
    /\ result = Pending /\ cycle = NoCycle
    /\ polls = 0 /\ reads = 0 /\ decodes = 0 /\ sent = 0
    /\ produced = <<>> /\ taken = <<>>

\* ---------------------------------------------- calls of the two functions
\* combine_messages(blobs); the buffer it returns is what the caller decodes
\* next, an exception ends the caller's run.
CallCombine ==
    /\ todo /= <<>> /\ Head(todo) = "combine"
    /\ buf' = combine_messages(blobs)
    /\ blob' = buf'.val
    /\ todo' = IF buf'.exc = "none" THEN Tail(todo) ELSE <<>>
    /\ UNCHANGED <<reading, layout, blobs, values>>
    /\ UNCHANGED pollVars

\* decode_blob(blob, layout)
CallDecode ==
    /\ todo /= <<>> /\ Head(todo) = "decode"
    /\ values' = decode_blob(blob, layout)
    /\ todo' = Tail(todo)
    /\ UNCHANGED <<reading, layout, blobs, buf, blob>>
    /\ UNCHANGED pollVars

\* combine_messages on every list of up to MaxFrames frames.
InitCombine ==
    /\ todo = <<"combine">>
    /\ blobs \in FrameSeqs
    /\ reading = <<>> /\ layout = <<>> /\ buf = Pending /\ blob = <<>>
    /\ values = Pending
    /\ PollerIdle
NextCombine == CallCombine
SpecCombine == InitCombine /\ [][NextCombine]_vars

\* ------------------------------------------- what the claims are stated in
WellFormed(bs) == \A j \in 1..Len(bs) : Len(bs[j]) = 10
\* Position of the first frame whose trailer (offset 9) is the stop sentinel,
\* 0 when there is none.
StopAt(bs) == {j \in 1..Len(bs) : bs[j][10] = 1}
FirstStop(bs) ==
    IF StopAt(bs) = {} THEN 0
    ELSE CHOOSE k \in StopAt(bs) : \A j \in StopAt(bs) : k <= j
\* Bytes at offsets 1..8 of frames 1..k, in receipt order.
PayloadBytes(bs, k) ==
    [p \in 1..(8 * k) |-> bs[((p - 1) \div 8) + 1][((p - 1) % 8) + 2]]
CombineDone == todo = <<>> /\ buf /= Pending

\* C1: for well-formed frames whose first stop sentinel is on frame k < n,
\* combine_messages returns exactly the payload bytes of frames 1..k in
\* receipt order, whatever frames k+1..n hold, and raises nothing.
C1_StopPrecedence ==
    (CombineDone /\ WellFormed(blobs) /\ FirstStop(blobs) >= 1
        /\ FirstStop(blobs) < Len(blobs))
    => buf = Returned(PayloadBytes(blobs, FirstStop(blobs)))
\* A run of three frames stopped by the first, with a further sentinel later.
C1_Witness ==
    /\ CombineDone /\ WellFormed(blobs) /\ Len(blobs) = 3
    /\ FirstStop(blobs) = 1 /\ 3 \in StopAt(blobs)
    /\ blobs[2] /= blobs[1]
    /\ Len(buf.val) = 8

\* C2: when no frame carries the stop sentinel (the empty list included)
\* combine_messages raises nothing and returns the payload bytes of all the
\* frames in order; for the empty list that is the empty buffer.
C2_Unterminated ==
    (CombineDone /\ WellFormed(blobs) /\ FirstStop(blobs) = 0)
    => /\ buf = Returned(PayloadBytes(blobs, Len(blobs)))
       /\ (blobs = <<>> => buf.val = <<>>)
C2_Witness ==
    /\ CombineDone /\ WellFormed(blobs) /\ Len(blobs) = 2
    /\ FirstStop(blobs) = 0 /\ Len(buf.val) = 16

\* The same frames with the stop sentinel on the last one.
WithStopOnLast(bs) ==
    [j \in 1..Len(bs) |-> IF j = Len(bs) THEN [bs[j] EXCEPT ![10] = STOP_BIT]
                          ELSE bs[j]]
Unterminated == CombineDone /\ WellFormed(blobs) /\ blobs /= <<>> /\ FirstStop(blobs) = 0

\* C5 as claimed: an unterminated run is signalled, so what the caller gets
\* differs from what it gets for the same frames ended by the stop sentinel.
C5_WarningReported ==
    Unterminated => buf /= combine_messages(WithStopOnLast(blobs))
\* C5: an unterminated run is not signalled: combine_messages gives back the
\* buffer alone, and the same one as for the frames ended by the stop sentinel.
C5_Silent ==
    Unterminated => /\ buf = combine_messages(WithStopOnLast(blobs))
                    /\ buf.exc = "none" /\ buf.msg = <<>>
C5_Witness ==
    /\ Unterminated /\ Len(blobs) = 2 /\ blobs[2][10] = 255
    /\ buf.val = PayloadBytes(blobs, 2)

\* Frames the loop consumes: up to and including the first stop sentinel, or
\* all of them.
Consumed(bs) == IF FirstStop(bs) = 0 THEN Len(bs) ELSE FirstStop(bs)

\* C9: for 10-byte frames the returned buffer holds 8 bytes per consumed
\* frame, so its length is a multiple of 8.
C9_BufferLength ==
    (CombineDone /\ WellFormed(blobs))
    => /\ buf.exc = "none"
       /\ Len(buf.val) = 8 * Consumed(blobs)
       /\ Len(buf.val) % 8 = 0
C9_Witness ==
    /\ CombineDone /\ WellFormed(blobs) /\ Len(blobs) = 3
    /\ FirstStop(blobs) = 2 /\ Len(buf.val) = 16


\* ------------------------------------------------------------ decode_blob
\* decode_blob on every buffer of up to MaxBlobLen bytes against every layout.
\* n bytes repeating the float32 0x7f800001 (a signalling NaN) or 0x7fc00001
\* (the quiet one), least significant byte first.
NaNPattern(third, n) == [i \in 1..n |-> <<1, 0, third, 127>>[((i - 1) % 4) + 1]]
Buffers == {Pattern(s, n) : s \in 0..MaxSeed, n \in 0..MaxBlobLen}
           \cup {NaNPattern(third, n) : third \in {128, 192}, n \in 0..MaxBlobLen}
InitDecode ==
    /\ todo = <<"decode">>
    /\ layout \in Layouts
    /\ blob \in Buffers
    /\ reading = <<>> /\ blobs = <<>> /\ buf = Pending /\ values = Pending
    /\ PollerIdle
NextDecode == CallDecode
SpecDecode == InitDecode /\ [][NextDecode]_vars

\* The layout's total declared byte length: one byte per pad, four per scalar.
Pads(l) == {p \in 1..Len(l) : l[p] = "x"}
Fields(l) == {p \in 1..Len(l) : l[p] /= "x"}
LayoutSize(l) == Cardinality(Pads(l)) + 4 * Cardinality(Fields(l))
\* Position in the layout of its k-th scalar field, and the byte offset of
\* the field at position p.
FieldPos(l, k) == CHOOSE p \in Fields(l) : Cardinality({q \in Fields(l) : q <= p}) = k
OffsetOf(l, p) ==
    Cardinality({q \in Pads(l) : q < p}) + 4 * Cardinality({q \in Fields(l) : q < p})
\* The float32 bits bs as sign, exponent and mantissa.
Exponent(bs) == (bs[4] % 128) * 2 + bs[3] \div 128
Mantissa(bs) == (bs[3] % 128) * 65536 + bs[2] * 256 + bs[1]
IsNaN(bs) == Exponent(bs) = 255 /\ Mantissa(bs) /= 0
\* Scalar v is what the four bytes bs stand for under type code c.  A float32
\* that is no NaN is its bytes; a NaN is a quiet NaN with the same sign and
\* payload.  An int32 is the integer in -2^31 .. 2^31 - 1 whose two's
\* complement bytes, least significant first, they are.
StandsFor(v, c, bs) ==
    IF c = "i"
    THEN /\ v.t = "i"
         /\ v.v >= -2147483647 - 1 /\ v.v <= 2147483647
         /\ bs = <<v.v % 256, (v.v \div 256) % 256, (v.v \div 65536) % 256,
                   (v.v \div 16777216) % 256>>
    ELSE /\ v.t = c
         /\ ~IsNaN(bs) => v.b = bs
         /\ IsNaN(bs) =>
              /\ IsNaN(v.b) /\ Mantissa(v.b) >= 4194304
              /\ v.b[4] = bs[4]
              /\ Mantissa(v.b) % 4194304 = Mantissa(bs) % 4194304
\* vals is the decoding of buffer b under layout l: one scalar per
\* non-padding field, in declared order, from the bytes at the field's offset.
DecodingOf(vals, l, b) ==
    /\ Len(vals) = Cardinality(Fields(l))
    /\ \A k \in 1..Len(vals) :
          LET p == FieldPos(l, k) IN
          StandsFor(vals[k], l[p], [n \in 1..4 |-> b[OffsetOf(l, p) + n]])
\* The byte a pair of hex digits stands for.
DigitValue(c) == (CHOOSE i \in 1..16 : HexDigits[i] = c) - 1
RendersHex(m, b) ==
    /\ Len(m) = 2 * Len(b)
    /\ \A k \in 1..Len(b) : 16 * DigitValue(m[2 * k - 1]) + DigitValue(m[2 * k]) = b[k]
DecodeDone == todo = <<>> /\ values /= Pending

\* C4: decode_blob returns one scalar per non-padding field, in declared
\* order, each the four bytes at the field's offset, whenever the buffer is
\* as long as the layout, whatever the bytes are; it raises ValueError with
\* the hex-rendered buffer whenever the buffer is shorter; it never gives
\* back anything else (no partial tuple, no default).
C4_DecodeLength ==
    DecodeDone =>
      /\ Len(blob) = LayoutSize(layout) =>
           /\ values.exc = "none"
           /\ DecodingOf(values.val, layout, blob)
      /\ Len(blob) < LayoutSize(layout) =>
           /\ values.exc = "ValueError" /\ values.val = <<>>
           /\ RendersHex(values.msg, blob)
      /\ values.exc \in {"none", "ValueError"}
      /\ values.exc = "ValueError" => values.val = <<>>
\* A 24-byte buffer decoded with the padded 26-byte layout's sibling
\* "=ffffii", and so six scalars out.
C4_Witness ==
    /\ DecodeDone /\ layout = DefaultDecodeFmt /\ Len(blob) = 24
    /\ values.exc = "none" /\ Len(values.val) = 6
    /\ values.val[4].t = "f" /\ values.val[5].t = "i" /\ values.val[5].v < 0

\* --------------------------------------------------------------- round trip
\* The transmitter's side of the link, as the protocol describes it:
\* struct.pack of the reading (pad bytes are zero) ...
RECURSIVE pack(_, _)
pack(codes, vals) ==
    IF codes = <<>> THEN <<>>
    ELSE IF Head(codes) = "x" THEN <<0>> \o pack(Tail(codes), vals)
         ELSE (IF Head(codes) = "i"
               THEN LET v == Head(vals).v IN
                    <<v % 256, (v \div 256) % 256, (v \div 65536) % 256,
                      (v \div 16777216) % 256>>
               ELSE Head(vals).b)
              \o pack(Tail(codes), Tail(vals))
\* ... cut into frames of 8 payload bytes, the last one filled up with
\* zeros, marker 0x02, trailer 0x01 on the last frame and 0x00 on the others.
split_frames(payload) ==
    LET n == (Len(payload) + 7) \div 8 IN
    [j \in 1..n |->
        <<2>> \o [i \in 1..8 |-> IF 8 * (j - 1) + i <= Len(payload)
                                 THEN payload[8 * (j - 1) + i] ELSE 0]
        \o <<IF j = n THEN STOP_BIT ELSE 0>>]

Transmit ==
    /\ todo /= <<>> /\ Head(todo) = "encode"
    /\ blobs' = split_frames(pack(layout, reading))
    /\ todo' = Tail(todo)
    /\ UNCHANGED <<reading, layout, buf, blob, values>>
    /\ UNCHANGED pollVars

\* The readings of a layout: float32 fields from a few byte groups, int32
\* fields from the ends of the range and around zero
\* (a quiet NaN among the floats; equality of readings is equality of bits).
Floats == {[t |-> "f", b |-> Pattern(s, 4)] : s \in 0..MaxSeed}
          \cup {[t |-> "f", b |-> <<1, 0, 192, 127>>]}
Ints == {[t |-> "i", v |-> n] : n \in {-2147483647 - 1, -1, 1, 2147483647}}
Readings(l) ==
    {r \in [1..Cardinality(Fields(l)) -> Floats \cup Ints] :
        \A k \in 1..Cardinality(Fields(l)) : r[k].t = l[FieldPos(l, k)]}
InitRoundTrip ==
    /\ todo = <<"encode", "combine", "decode">>
    /\ layout \in Layouts
    /\ reading \in Readings(layout)
    /\ blobs = <<>> /\ buf = Pending /\ blob = <<>> /\ values = Pending
    /\ PollerIdle
NextRoundTrip == Transmit \/ CallCombine \/ CallDecode
SpecRoundTrip == InitRoundTrip /\ [][NextRoundTrip]_vars

RoundTripDone == todo = <<>> /\ buf /= Pending /\ values /= Pending

\* C3 as claimed: for every layout, the poller's default one included,
\* serialise, frame, combine, decode gives back the reading.
C3_RoundTripAnyLayout == RoundTripDone => values = Returned(reading)
\* C3: the round trip gives back the reading for every layout whose byte
\* length is a multiple of 8; for any other layout, the poller's default
\* 26-byte one included, the reassembled buffer is longer than the layout
\* and decode_blob raises ValueError.
C3_RoundTrip ==
    RoundTripDone =>
      /\ LayoutSize(layout) % 8 = 0 => values = Returned(reading)
      /\ LayoutSize(layout) % 8 /= 0 =>
           /\ values.exc = "ValueError"
           /\ Len(buf.val) > LayoutSize(layout)
C3_Witness ==
    /\ RoundTripDone /\ layout = DefaultDecodeFmt /\ Len(blobs) = 3
    /\ values = Returned(reading) /\ Len(reading) = 6
    /\ reading[1] /= reading[2] /\ reading[5].v = -1 /\ reading[6].v = 2147483647


\* ------------------------------------------------------------------ Sensors
\* The transport cuts a burst into 10-byte frames (the last one may be short).
segment(b) ==
    [j \in 1..((Len(b) + 9) \div 10) |-> SubSeq(b, 10 * (j - 1) + 1, Min(10 * j, Len(b)))]

\* A read that reassembles the frames of the burst before decoding.
decode_input_combined(b) == combine_messages(segment(b)).val
\* values = decode_blob(blob, self.fmt): the blob is decoded as it was read.
decode_input(b) == b

\* self.out_queue.put(values): queue.Queue is FIFO, values go to the tail.
put(q, v) == Append(q, v)

\* A read that catches the decode error and goes on with an empty tuple.
read_body_default(b, f) ==
    IF b = <<>> THEN [result |-> Returned(<<>>), decoded |-> FALSE, puts |-> <<>>]
    ELSE LET v == decode_blob(decode_input(b), f) IN
         [result |-> Returned(<<>>), decoded |-> TRUE, puts |-> <<v.val>>]
\* Lines 80-81 of Sensors.read, after blob = self.device.read(): whether
\* decode_blob is called, the values to put if it returns, and what the call
\* gives back if there is nothing to put (None, or the ValueError of
\* decode_blob, which read does not catch).
read_body(b, f) ==
    IF b = <<>> THEN [result |-> Returned(<<>>), decoded |-> FALSE, puts |-> <<>>]
    ELSE LET v == decode_blob(decode_input(b), f) IN
         IF v.exc = "none"
         THEN [result |-> Returned(<<>>), decoded |-> TRUE, puts |-> <<v.val>>]
         ELSE [result |-> v, decoded |-> TRUE, puts |-> <<>>]

\* What the microcontroller sends in one burst: a 26-byte message (marker, 24
\* payload bytes, stop byte), 24 payload bytes cut into three 10-byte frames,
\* 24 bare payload bytes, or a truncated message.
PollSeeds == {0, 1}
RawMessage(seed) == <<2>> \o Pattern(seed, 24) \o <<STOP_BIT>>
Framed(seed) == join(split_frames(Pattern(seed, 24)))
Bursts == {RawMessage(s) : s \in PollSeeds} \cup {Pattern(s, 24) : s \in PollSeeds}
          \cup {Framed(0), <<2, 7, 1>>}

\* The queues a caller may hand to Sensors: queue.Queue() (maxsize 0, no
\* limit) and queue.Queue(maxsize=1).
QueueSizes == {0, 1}

\* Sensors(device, out_queue, fmt): the queue is the caller's, fmt is the
\* default or the caller's.
Init ==
    /\ device = <<>> /\ out_queue = <<>>
    /\ maxsize \in QueueSizes
    /\ fmt \in {DefaultSensorsFmt, DefaultDecodeFmt}
    /\ pc = "idle" /\ rblob = <<>> /\ rvalues = <<>>
    /\ result = Pending /\ cycle = NoCycle
    /\ polls = 0 /\ reads = 0 /\ decodes = 0 /\ sent = 0
    /\ produced = <<>> /\ taken = <<>>
    /\ todo = <<>> /\ reading = <<>> /\ layout = <<>> /\ blobs = <<>>
    /\ buf = Pending /\ blob = <<>> /\ values = Pending

\* The microcontroller writes a burst to the device, whatever the poller is
\* doing.
Write(burst) ==
    /\ sent < MaxBursts
    /\ device' = device \o burst
    /\ sent' = sent + 1
    /\ UNCHANGED <<out_queue, maxsize, fmt, pc, rblob, rvalues, result, cycle,
                   polls, reads, decodes, produced, taken>>
    /\ UNCHANGED pureVars

\* Sensors.read() is called; blob = self.device.read() takes every byte
\* available (none: b'').
ReadDevice ==
    /\ pc = "idle"
    /\ polls < MaxPolls
    /\ polls' = polls + 1
    /\ reads' = reads + 1
    /\ rblob' = device
    /\ device' = <<>>
    /\ cycle' = [blob |-> device, decoded |-> FALSE, input |-> <<>>]
    /\ pc' = "decode"
    /\ UNCHANGED <<out_queue, maxsize, fmt, rvalues, result, decodes, sent,
                   produced, taken>>
    /\ UNCHANGED pureVars

\* if blob: values = decode_blob(blob, self.fmt).  On no bytes the call
\* returns None, on a decode error it ends with the ValueError.
ReadDecode ==
    /\ pc = "decode"
    /\ LET r == read_body(rblob, fmt) IN
       /\ decodes' = IF r.decoded THEN decodes + 1 ELSE decodes
       /\ cycle' = [cycle EXCEPT !.decoded = r.decoded,
                                 !.input = IF r.decoded THEN decode_input(rblob)
                                           ELSE <<>>]
       /\ IF r.puts = <<>>
          THEN /\ result' = r.result
               /\ pc' = "idle"
               /\ rblob' = <<>>
               /\ UNCHANGED rvalues
          ELSE /\ rvalues' = r.puts[1]
               /\ pc' = "put"
               /\ UNCHANGED <<result, rblob>>
    /\ UNCHANGED <<device, out_queue, maxsize, fmt, polls, reads, sent, produced,
                   taken>>
    /\ UNCHANGED pureVars

\* A put that never waits: on a full queue the oldest value makes room
\* (a collections.deque(maxlen=n) in place of the queue).
ReadPutDropOldest ==
    /\ pc = "put"
    /\ out_queue' = IF maxsize > 0 /\ Len(out_queue) >= maxsize
                    THEN put(Tail(out_queue), rvalues)
                    ELSE put(out_queue, rvalues)
    /\ produced' = Append(produced, [val |-> rvalues, blob |-> rblob])
    /\ result' = Returned(<<>>)
    /\ pc' = "idle"
    /\ rblob' = <<>>
    /\ rvalues' = <<>>
    /\ UNCHANGED <<device, maxsize, fmt, cycle, polls, reads, decodes, sent, taken>>
    /\ UNCHANGED pureVars
\* self.out_queue.put(values), and the call returns None.  put(item) is
\* put(item, block=True, timeout=None): while a queue of maxsize > 0 holds
\* maxsize values the call waits for the consumer, and it never raises Full.
ReadPut ==
    /\ pc = "put"
    /\ maxsize <= 0 \/ Len(out_queue) < maxsize
    /\ out_queue' = put(out_queue, rvalues)
    /\ produced' = Append(produced, [val |-> rvalues, blob |-> rblob])
    /\ result' = Returned(<<>>)
    /\ pc' = "idle"
    /\ rblob' = <<>>
    /\ rvalues' = <<>>
    /\ UNCHANGED <<device, maxsize, fmt, cycle, polls, reads, decodes, sent, taken>>
    /\ UNCHANGED pureVars

\* The publisher takes the oldest value off the queue, whatever the poller
\* is doing.
Get ==
    /\ out_queue /= <<>>
    /\ taken' = Append(taken, Head(out_queue))
    /\ out_queue' = Tail(out_queue)
    /\ UNCHANGED <<device, maxsize, fmt, pc, rblob, rvalues, result, cycle, polls,
                   reads, decodes, sent, produced>>
    /\ UNCHANGED pureVars

Next ==
    \/ \E burst \in Bursts : Write(burst)
    \/ ReadDevice
    \/ ReadDecode
    \/ ReadPut
    \/ Get
Spec == Init /\ [][Next]_vars

Decodable(l, b) == Len(b) = LayoutSize(l)
\* The steps of a call of Sensors.read: device.read(), the end of the decode,
\* the put.
DeviceRead == pc = "idle" /\ pc' = "decode"
Decoded == pc = "decode" /\ pc' /= "decode"
Put == pc = "put" /\ pc' = "idle"
\* q is queue p with v appended at the tail, the entries of p in place.
Appended(q, p) == Len(q) = Len(p) + 1 /\ SubSeq(q, 1, Len(p)) = p

\* C6: a poll reads the transport once; on no bytes it leaves the queue alone
\* and does not decode; on bytes that decode it appends that one decode
\* result at the tail; on bytes that do not decode it appends nothing; the
\* entries already queued keep their place (the consumer alone removes).
C6_PollEffect ==
    /\ [](reads = polls)
    /\ [][(reads' /= reads \/ polls' /= polls) =>
            (DeviceRead /\ reads' = reads + 1 /\ polls' = polls + 1
             /\ rblob' = device /\ device' = <<>>)]_vars
    /\ [][Decoded =>
            /\ rblob = <<>> => (pc' = "idle" /\ decodes' = decodes)
            /\ rblob /= <<>> => decodes' = decodes + 1
            /\ pc' = "put" <=> (rblob /= <<>> /\ Decodable(fmt, rblob))
            /\ pc' = "put" => DecodingOf(rvalues', fmt, rblob)]_vars
    /\ [][Put => (Appended(out_queue', out_queue)
                  /\ out_queue'[Len(out_queue')] = rvalues)]_vars
    /\ [][out_queue' /= out_queue =>
            (Put \/ (out_queue' = Tail(out_queue) /\ taken' /= taken))]_vars
\* A successful poll appended behind an entry that was already queued,
\* after a poll that found nothing and one that failed to decode.
C6_Witness ==
    /\ pc = "idle" /\ Len(out_queue) = 2 /\ polls = 4 /\ decodes = 3 /\ reads = 4
    /\ result.exc = "none" /\ cycle.blob /= <<>>
    /\ DecodingOf(out_queue[2], fmt, cycle.blob)

\* C7 as claimed: a decode error is caught inside the poll cycle, so no call
\* of read ever ends with the error.
C7_ErrorCaught == result.exc /= "ValueError"
\* C7: a decode error is not caught by read: the call raises decode_blob's
\* ValueError (with the hex-rendered bytes) to its caller after decoding
\* once, with the burst consumed and nothing queued; the poller is left
\* usable, so the next call that reads a well-formed payload decodes it and
\* queues its reading.
C7_ErrorPropagates ==
    /\ [][(Decoded /\ rblob /= <<>> /\ ~Decodable(fmt, rblob)) =>
            /\ result'.exc = "ValueError"
            /\ RendersHex(result'.msg, rblob)
            /\ pc' = "idle"
            /\ decodes' = decodes + 1
            /\ device' = device /\ reads' = reads
            /\ out_queue' = out_queue]_vars
    /\ [][(result.exc = "ValueError" /\ Decoded /\ rblob /= <<>>
            /\ Decodable(fmt, rblob)) =>
            (pc' = "put" /\ DecodingOf(rvalues', fmt, rblob))]_vars
    /\ [][(result.exc = "ValueError" /\ Put) =>
            /\ result'.exc = "none"
            /\ Appended(out_queue', out_queue)
            /\ out_queue'[Len(out_queue')] = rvalues]_vars
\* A poll that queued a reading right after one that raised.
C7_Witness ==
    /\ pc = "idle" /\ polls = 2 /\ decodes = 2 /\ Len(produced) = 1
    /\ result.exc = "none" /\ cycle.blob /= <<>>
    /\ Len(out_queue) = 1 /\ DecodingOf(out_queue[1], fmt, cycle.blob)

\* C8: in every poll that reads a burst, the buffer handed to decode_blob is
\* the reassembled payload of the burst's frames, and every reading put on
\* the queue is the decoding of the reassembled frames it was read from.
C8_Reassembled ==
    /\ (cycle.decoded /\ WellFormed(segment(cycle.blob)))
          => cycle.input = combine_messages(segment(cycle.blob)).val
    /\ \A i \in 1..Len(produced) :
          LET r == decode_blob(combine_messages(segment(produced[i].blob)).val, fmt)
          IN r.exc = "none" /\ produced[i].val = r.val
\* What read does instead: it never calls combine_messages; the buffer it
\* hands to decode_blob is the burst as read, markers and trailers included,
\* and every reading put on the queue is the decoding of that raw burst.
RawDecode ==
    /\ cycle.decoded => cycle.input = cycle.blob
    /\ \A i \in 1..Len(produced) :
          /\ Decodable(fmt, produced[i].blob)
          /\ DecodingOf(produced[i].val, fmt, produced[i].blob)
\* The default layout decoding a raw 26-byte message: its pad bytes swallow
\* the marker and the stop byte.
RawDecodeSeen ==
    /\ fmt = DefaultSensorsFmt /\ Len(produced) = 1
    /\ Len(produced[1].blob) = 26 /\ produced[1].blob[26] = STOP_BIT
    /\ produced[1].val[1].b = SubSeq(produced[1].blob, 2, 5)
    /\ cycle.decoded /\ pc = "idle"

\* The values of the successful polls, in their order.
ProducedValues == [i \in 1..Len(produced) |-> produced[i].val]
\* The call of read is at its put and the put cannot go on.
PutBlocked == pc = "put" /\ ~ENABLED ReadPut

\* C10 as claimed: whatever the interleaving of the poller and the consumer,
\* the values the consumer has taken are a prefix of the values of the
\* successful polls, none lost, duplicated or reordered, and a put by the
\* poller never waits or fails because of the queue's capacity, whatever
\* queue the poller was given.
C10_NeverBlocks ==
    /\ taken \o out_queue = ProducedValues
    /\ ~PutBlocked
\* C10: whatever the interleaving of the poller and the consumer, the values
\* the consumer has taken followed by the values still queued are the values
\* of the successful polls, in their order: none lost, duplicated or
\* reordered, and no put fails.  A put never waits when the queue the poller
\* was given has no limit (maxsize 0); on a queue of maxsize n > 0 it waits
\* exactly while n values are queued, the queue never holds more than n, the
\* consumer can always take one, and that take lets the put go on.
C10_Fifo ==
    /\ [](taken \o out_queue = ProducedValues)
    /\ [][Put => (/\ Len(produced') = Len(produced) + 1
                  /\ Len(out_queue') = Len(out_queue) + 1
                  /\ result'.exc = "none")]_vars
    /\ [](maxsize = 0 => ~PutBlocked)
    /\ []((pc = "put" /\ maxsize > 0) => (PutBlocked <=> Len(out_queue) = maxsize))
    /\ [](maxsize > 0 => Len(out_queue) <= maxsize)
    /\ [](PutBlocked => ENABLED Get)
    /\ [][(PutBlocked /\ taken' /= taken) => Len(out_queue') < maxsize]_vars
\* On a queue of one place the consumer has taken the first value, the
\* second fills the queue, and the poller, a third blob read and decoded,
\* waits at its put.
C10_Witness ==
    /\ PutBlocked /\ maxsize = 1 /\ Len(taken) = 1 /\ Len(out_queue) = 1
    /\ taken[1] /= out_queue[1] /\ rvalues /= out_queue[1]
\* On a queue without limit the poller is at its put behind two values
\* still queued, and the put can go on.
UnboundedPutSeen ==
    /\ pc = "put" /\ maxsize = 0 /\ Len(out_queue) = 2 /\ ENABLED ReadPut

=============================================================================
